---- MODULE Spec2Model ----
(***************************************************************************)
(* A state-machine model of hook-generator.py: the crop of one video       *)
(* (crop_video_to_9_16), the status poll of one generation task            *)
(* (wait_for_video_completion) and the per-image loop of the orchestrator  *)
(* (generate_all_videos / process_single_image / send_to_kling /           *)
(* download_kling_video).                                                  *)
(*                                                                         *)
(* The specifications share the variables:                                 *)
(*   SpecCrop    one call of crop_video_to_9_16 on one file                *)
(*   SpecPoll    one call of wait_for_video_completion                     *)
(*   SpecUpload  one call of upload_image_to_temporary_hosting             *)
(*   Spec        one run of generate_all_videos: discovery, the per-image  *)
(*               loop, the crop stage and the summary                      *)
(*   SpecLive    Spec, with the run taking a step whenever it has one      *)
(* The external collaborators (FFmpeg, the file system, the HTTP           *)
(* endpoints) are the environment: every outcome they can produce is a     *)
(* nondeterministic choice.                                                *)
(***************************************************************************)
EXTENDS Integers, Sequences, FiniteSets, TLC

VARIABLES
    \* ---- crop_video_to_9_16 (lines 54-105) ----
    crop_pc,        \* position inside crop_video_to_9_16
    input_file,     \* the file at input_path
    temp_file,      \* the file at temp_output (the "_temp_cropped.mp4" sibling)
    pre_content,    \* content of input_path when the call started
    tool_output,    \* the complete cropped stream FFmpeg produces for it
    returncode,     \* result.returncode, -1 while there is none
    crop_raised,    \* an exception reached the except clause (line 98)
    crop_result,    \* the value returned: "none" until the call returns
    \* ---- wait_for_video_completion (lines 260-307) ----
    poll_pc,        \* "idle", "loop" (line 269), "done" (returned)
    attempt,        \* the loop variable of line 269
    poll_ret,       \* the value returned: "pending" until the call returns
    poll_calls,     \* the external calls of the latest step: "GET" is the
                    \* requests.get of line 276, "sleep" the time.sleep of
                    \* lines 300 and 304
    \* ---- what an observer of one poll has seen (SpecPoll only) ----
    gets,           \* GETs issued so far
    sleeps,         \* sleeps made so far
    last_resp,      \* the reply to the latest GET
    succeed_seen,   \* a reply with task_status "succeed" has been received
    succeed_gets,   \* gets when the first such reply arrived
    succeed_videos, \* the result list of that reply
    failed_seen,    \* a reply with task_status "failed" has been received
    failed_gets,    \* gets when the first such reply arrived
    failed_sleeps,  \* sleeps when the first such reply arrived
    all_non_terminal, \* every reply so far was pending, non-200 or code /= 0
    \* ---- generate_all_videos / process_single_image (lines 336-458) ----
    pc,             \* position of the run
    dir_exists,     \* base-image exists (line 186)
    dir_listing,    \* base_image_dir.iterdir(), in the order it yields
    all_images,     \* line 395
    total_video_steps, \* lines 409-412
    progress,       \* overall_progress.n
    total_successful, \* line 417
    total_failed,   \* line 418
    all_successful_video_paths, \* line 419
    img,            \* index in all_images of the image of line 422
    prompts_to_use, \* lines 344-348, as the list of its keys
    image_url,      \* line 352
    emo,            \* index in prompts_to_use of the emotion of line 362
    successful,     \* line 357
    failed,         \* line 358
    successful_video_paths, \* line 359
    out_files,      \* the files of output-videos, by path
    \* ---- upload_image_to_temporary_hosting (lines 150-175) ----
    upload_pc,      \* "idle", "post" (line 162), "done" (returned)
    upload_reply,   \* the reply to the POST of line 162
    upload_ret,     \* the value returned
    \* ---- send_to_kling (lines 205-258) ----
    token_uses,     \* requests that carried the token of line 211 so far,
                    \* counted up to 2 (one more than once); 0 outside
                    \* send_to_kling
    \* ---- the crop stage (lines 107-134 and 442-455) ----
    video,          \* index in successful_videos of the video of line 128
    cropped_successfully, \* line 120
    crop_failed,    \* line 121
    cropped_count,  \* line 444
    crop_failed_count, \* line 444
    ffmpeg_checks,  \* calls of check_ffmpeg in the run so far
    ffmpeg_seen,    \* the results those calls had
    crop_calls,     \* the paths crop_video_to_9_16 was called on, in order
    reported,       \* the summary printed (lines 447-448 or 452), if any
    \* ---- what an observer of the run has seen ----
    upload_failed,  \* indexes of the images whose upload failed
    submitted,      \* <<image index, emotion>> of every send_to_kling call
    succeeded       \* <<image index, emotion>> of every task counted successful

cropVars == <<crop_pc, input_file, temp_file, pre_content, tool_output,
              returncode, crop_raised, crop_result>>
pollVars == <<poll_pc, attempt, poll_ret, poll_calls>>
obsVars  == <<gets, sleeps, last_resp, succeed_seen, succeed_gets, succeed_videos,
              failed_seen, failed_gets, failed_sleeps, all_non_terminal>>
runVars  == <<pc, dir_exists, dir_listing, all_images, total_video_steps,
              progress, total_successful, total_failed,
              all_successful_video_paths, img, prompts_to_use, image_url, emo,
              successful, failed, successful_video_paths, out_files>>
uploadVars == <<upload_pc, upload_reply, upload_ret>>
sendVars == <<token_uses>>
stageVars == <<video, cropped_successfully, crop_failed, cropped_count,
               crop_failed_count, ffmpeg_checks, ffmpeg_seen, crop_calls,
               reported>>
histVars == <<upload_failed, submitted, succeeded>>
vars == <<cropVars, pollVars, obsVars, runVars, uploadVars, sendVars, stageVars,
          histVars>>

(***************************************************************************)
(* Bounds of the model.                                                    *)
(***************************************************************************)
\* longest file content, in bytes
MaxLen == 2

Bytes == {0, 1}

\* every byte string of length 1..MaxLen
Contents == UNION {[1..n -> Bytes] : n \in 1..MaxLen}

(***************************************************************************)
(* Files.  A path holds no file, or a file with a byte string.             *)
(***************************************************************************)
Absent == [exists |-> FALSE, data |-> <<>>]

File(bytes) == [exists |-> TRUE, data |-> bytes]

\* the first n bytes of s
Prefix(s, n) == SubSeq(s, 1, n)

(***************************************************************************)
(* crop_video_to_9_16                                                      *)
(***************************************************************************)
\* state of the crop part when no crop is running
CropIdle ==
    /\ crop_pc = "idle"
    /\ input_file = Absent
    /\ temp_file = Absent
    /\ pre_content = <<>>
    /\ tool_output = <<>>
    /\ returncode = -1
    /\ crop_raised = FALSE
    /\ crop_result = "none"

\* line 54: the call starts on an existing video; a temp sibling may be left
\* over from an earlier run
CropInit ==
    /\ crop_pc = "check"
    /\ pre_content \in Contents
    /\ input_file = File(pre_content)
    /\ temp_file \in {Absent} \cup {File(<<b>>) : b \in Bytes}
    /\ tool_output \in Contents
    /\ returncode = -1
    /\ crop_raised = FALSE
    /\ crop_result = "none"

\* lines 92-93 and 101-102: if os.path.exists(temp_output): os.remove(temp_output)
RemoveTemp(f) == IF f.exists THEN Absent ELSE f

\* lines 59-62: check_ffmpeg(); not available -> return False
crop_check_ffmpeg ==
    /\ crop_pc = "check"
    /\ \E available \in BOOLEAN :
         IF available
         THEN /\ crop_pc' = "run"
              /\ crop_result' = crop_result
         ELSE /\ crop_pc' = "done"
              /\ crop_result' = "False"
    /\ UNCHANGED <<input_file, temp_file, pre_content, tool_output,
                   returncode, crop_raised>>

\* line 82, subprocess.run(cmd): the process cannot be started (raises)
crop_run_raises ==
    /\ crop_pc = "run"
    /\ crop_pc' = "except"
    /\ crop_raised' = TRUE
    /\ UNCHANGED <<input_file, temp_file, pre_content, tool_output,
                   returncode, crop_result>>

\* line 82: FFmpeg exits non-zero before it opens its output
crop_tool_rejects ==
    /\ crop_pc = "run"
    /\ crop_pc' = "returned"
    /\ returncode' = 1
    /\ UNCHANGED <<input_file, temp_file, pre_content, tool_output,
                   crop_raised, crop_result>>

\* line 82: FFmpeg opens temp_output ('-y': an existing file is overwritten)
crop_tool_opens_output ==
    /\ crop_pc = "run"
    /\ crop_pc' = "tool"
    /\ temp_file' = File(<<>>)
    /\ UNCHANGED <<input_file, pre_content, tool_output, returncode,
                   crop_raised, crop_result>>

\* line 82: FFmpeg writes the next byte of the cropped stream to temp_output
crop_tool_writes ==
    /\ crop_pc = "tool"
    /\ Len(temp_file.data) < Len(tool_output)
    /\ temp_file' = File(Prefix(tool_output, Len(temp_file.data) + 1))
    /\ UNCHANGED <<crop_pc, input_file, pre_content, tool_output, returncode,
                   crop_raised, crop_result>>

\* line 82: FFmpeg exits: 0 once the whole stream is written, non-zero at any
\* point (the temp file is then whatever was written so far)
crop_tool_exits ==
    /\ crop_pc = "tool"
    /\ \E rc \in {0, 1} :
         /\ rc = 0 => temp_file.data = tool_output
         /\ returncode' = rc
    /\ crop_pc' = "returned"
    /\ UNCHANGED <<input_file, temp_file, pre_content, tool_output,
                   crop_raised, crop_result>>

\* line 82: subprocess.run raises while or after the tool ran (text=True
\* decoding of its output, an OS error)
crop_run_raises_late ==
    /\ crop_pc = "tool"
    /\ crop_pc' = "except"
    /\ crop_raised' = TRUE
    /\ UNCHANGED <<input_file, temp_file, pre_content, tool_output,
                   returncode, crop_result>>

\* line 84: if result.returncode == 0 -> line 86, shutil.move
crop_returncode_zero ==
    /\ crop_pc = "returned"
    /\ returncode = 0
    /\ crop_pc' = "move"
    /\ UNCHANGED <<input_file, temp_file, pre_content, tool_output,
                   returncode, crop_raised, crop_result>>

\* a move that copies: the temp file is left behind
crop_move_rename_keeps_temp ==
    /\ crop_pc = "move"
    /\ input_file' = temp_file
    /\ crop_pc' = "done"
    /\ crop_result' = "True"
    /\ UNCHANGED <<temp_file, pre_content, tool_output, returncode,
                   crop_raised>>

\* line 86, shutil.move(temp_output, input_path): os.rename succeeds, the
\* original is replaced in one step; lines 87-89: return True
crop_move_rename ==
    /\ crop_pc = "move"
    /\ input_file' = temp_file
    /\ temp_file' = Absent
    /\ crop_pc' = "done"
    /\ crop_result' = "True"
    /\ UNCHANGED <<pre_content, tool_output, returncode, crop_raised>>

\* line 86, shutil.move: os.rename raises OSError (always on Windows, where
\* rename refuses an existing destination); shutil.move then falls back to
\* copy_function(src, dst) followed by os.unlink(src)
crop_move_rename_fails ==
    /\ crop_pc = "move"
    /\ crop_pc' = "copy_open"
    /\ UNCHANGED <<input_file, temp_file, pre_content, tool_output,
                   returncode, crop_raised, crop_result>>

\* line 86, fallback copy: the copy raises before the destination is opened
crop_move_copy_refused ==
    /\ crop_pc = "copy_open"
    /\ crop_pc' = "except"
    /\ crop_raised' = TRUE
    /\ UNCHANGED <<input_file, temp_file, pre_content, tool_output,
                   returncode, crop_result>>

\* line 86, fallback copy: input_path is opened for writing and truncated
crop_move_copy_opens ==
    /\ crop_pc = "copy_open"
    /\ crop_pc' = "copying"
    /\ input_file' = File(<<>>)
    /\ UNCHANGED <<temp_file, pre_content, tool_output, returncode,
                   crop_raised, crop_result>>

\* line 86, fallback copy: the next byte of the temp file is written
crop_move_copy_writes ==
    /\ crop_pc = "copying"
    /\ Len(input_file.data) < Len(temp_file.data)
    /\ input_file' = File(Prefix(temp_file.data, Len(input_file.data) + 1))
    /\ UNCHANGED <<crop_pc, temp_file, pre_content, tool_output, returncode,
                   crop_raised, crop_result>>

\* line 86, fallback copy: a write raises (I/O error, disk full)
crop_move_copy_raises ==
    /\ crop_pc = "copying"
    /\ Len(input_file.data) < Len(temp_file.data)
    /\ crop_pc' = "except"
    /\ crop_raised' = TRUE
    /\ UNCHANGED <<input_file, temp_file, pre_content, tool_output,
                   returncode, crop_result>>

\* line 86, fallback copy done: os.unlink(temp_output); lines 87-89: return True
crop_move_copy_done ==
    /\ crop_pc = "copying"
    /\ input_file.data = temp_file.data
    /\ temp_file' = Absent
    /\ crop_pc' = "done"
    /\ crop_result' = "True"
    /\ UNCHANGED <<input_file, pre_content, tool_output, returncode,
                   crop_raised>>

\* lines 90-96: non-zero exit: remove the temp file if it exists, return False
crop_returncode_nonzero ==
    /\ crop_pc = "returned"
    /\ returncode # 0
    /\ temp_file' = RemoveTemp(temp_file)
    /\ crop_pc' = "done"
    /\ crop_result' = "False"
    /\ UNCHANGED <<input_file, pre_content, tool_output, returncode,
                   crop_raised>>

\* lines 98-105: except Exception: remove the temp file if it exists, return
\* False
crop_except ==
    /\ crop_pc = "except"
    /\ temp_file' = RemoveTemp(temp_file)
    /\ crop_pc' = "done"
    /\ crop_result' = "False"
    /\ UNCHANGED <<input_file, pre_content, tool_output, returncode,
                   crop_raised>>

crop_video_to_9_16 ==
    \/ crop_check_ffmpeg
    \/ crop_run_raises
    \/ crop_tool_rejects
    \/ crop_tool_opens_output
    \/ crop_tool_writes
    \/ crop_tool_exits
    \/ crop_run_raises_late
    \/ crop_returncode_zero
    \/ crop_move_rename
    \/ crop_move_rename_fails
    \/ crop_move_copy_refused
    \/ crop_move_copy_opens
    \/ crop_move_copy_writes
    \/ crop_move_copy_raises
    \/ crop_move_copy_done
    \/ crop_returncode_nonzero
    \/ crop_except

(***************************************************************************)
(* wait_for_video_completion                                               *)
(***************************************************************************)
\* line 260: max_attempts=60
max_attempts == 60

\* video URLs the service hands out
Urls == {"url1", "url2"}

\* a result entry without a "url" key: videos[0].get("url") is None
NoUrl == "None"

\* the value of a call that yields no video (lines 297 and 307: return None)
None == "None"

\* task_result.videos of a reply (line 289)
VideoLists == {<<>>, <<"url1">>, <<"url1", "url2">>, <<"url2", "url1">>,
               <<NoUrl>>}

\* task_status values of a well-formed reply (line 283)
TaskStatuses == {"submitted", "processing", "succeed", "failed"}

\* what one requests.get of line 276 can yield: an exception, a non-200
\* reply, a 200 reply with code /= 0 (no task data), or a 200 reply with
\* code 0 whose data carries task_status and, for "succeed", the result list
Raise == [raised |-> TRUE, status_code |-> 0, code |-> 0,
          task_status |-> "", videos |-> <<>>]

Reply(sc, c, st, vs) == [raised |-> FALSE, status_code |-> sc, code |-> c,
                         task_status |-> st, videos |-> vs]

Responses ==
    {Raise}
    \cup {Reply(sc, 0, "", <<>>) : sc \in {500, 429}}
    \cup {Reply(200, c, "", <<>>) : c \in {1200, 1303}}
    \cup {Reply(200, 0, st, <<>>) : st \in TaskStatuses \ {"succeed"}}
    \cup {Reply(200, 0, "succeed", vs) : vs \in VideoLists}

NoResponse == Reply(0, 0, "", <<>>)

\* lines 278-283: the reply is a 200 with code 0, so its task_status is read
Accepted(r) == ~r.raised /\ r.status_code = 200 /\ r.code = 0

\* lines 287-294: "succeed" with a non-empty result list -> return its
\* first URL
ReturnsVideo(r) ==
    Accepted(r) /\ r.task_status = "succeed" /\ r.videos # <<>>

\* "failed" is not told from a pending status
ReturnsFailed_Never(r) == FALSE

\* lines 295-297: "failed" -> return None
ReturnsFailed(r) == Accepted(r) /\ r.task_status = "failed"

\* line 291: video_url = videos[0].get("url")
FirstVideoUrl(vs) == vs[1]

\* one iteration too many
LoopContinues_OffByOne(a) == a <= max_attempts

\* line 269: for attempt in range(max_attempts)
LoopContinues(a) == a < max_attempts

\* line 297: return None
ReturnOnFailed == None

\* line 307: return None
ReturnOnExhausted == None

\* lines 276 and 299-300: a GET whose reply ends nothing is followed by
\* video_progress.update(1) and time.sleep(delay)
PendingCalls == {"GET", "sleep"}

\* an except clause that retries at once
ExceptCalls_NoSleep == {"GET"}

\* lines 276 and 302-305: a GET that raised is followed by time.sleep(delay)
\* and video_progress.update(1)
ExceptCalls == {"GET", "sleep"}

\* lines 276 and 294, 297: a GET whose reply ends the call; no sleep follows
ReturnCalls == {"GET"}

\* state of the poll part when no poll is running
PollIdle ==
    /\ poll_pc = "idle"
    /\ attempt = 0
    /\ poll_ret = "pending"
    /\ poll_calls = {}

\* line 260: the call starts
PollInit ==
    /\ poll_pc = "loop"
    /\ attempt = 0
    /\ poll_ret = "pending"
    /\ poll_calls = {}

\* lines 269-305: one iteration of the loop, over the reply r to its GET; a
\* return ends the call and its loop variable with it
poll_attempt(r) ==
    /\ poll_pc = "loop"
    /\ LoopContinues(attempt)
    /\ IF r.raised
       THEN \* lines 302-305: except Exception
            /\ attempt' = attempt + 1
            /\ poll_calls' = ExceptCalls
            /\ UNCHANGED <<poll_pc, poll_ret>>
       ELSE IF ReturnsVideo(r)
       THEN \* lines 290-294
            /\ poll_ret' = FirstVideoUrl(r.videos)
            /\ poll_pc' = "done"
            /\ attempt' = 0
            /\ poll_calls' = ReturnCalls
       ELSE IF ReturnsFailed(r)
       THEN \* lines 295-297
            /\ poll_ret' = ReturnOnFailed
            /\ poll_pc' = "done"
            /\ attempt' = 0
            /\ poll_calls' = ReturnCalls
       ELSE \* lines 299-300
            /\ attempt' = attempt + 1
            /\ poll_calls' = PendingCalls
            /\ UNCHANGED <<poll_pc, poll_ret>>

\* line 307: the loop is exhausted -> return None
poll_exhausted ==
    /\ poll_pc = "loop"
    /\ ~LoopContinues(attempt)
    /\ poll_ret' = ReturnOnExhausted
    /\ poll_pc' = "done"
    /\ attempt' = 0
    /\ poll_calls' = {}

\* what the observer of a poll records of a step: the calls it made and, for
\* an attempt, the reply r
CountCalls ==
    /\ gets' = gets + (IF "GET" \in poll_calls' THEN 1 ELSE 0)
    /\ sleeps' = sleeps + (IF "sleep" \in poll_calls' THEN 1 ELSE 0)

Observe(r) ==
    /\ CountCalls
    /\ last_resp' = r
    /\ IF Accepted(r) /\ r.task_status = "succeed" /\ ~succeed_seen
       THEN /\ succeed_seen' = TRUE
            /\ succeed_gets' = gets'
            /\ succeed_videos' = r.videos
       ELSE UNCHANGED <<succeed_seen, succeed_gets, succeed_videos>>
    /\ IF Accepted(r) /\ r.task_status = "failed" /\ ~failed_seen
       THEN /\ failed_seen' = TRUE
            /\ failed_gets' = gets'
            /\ failed_sleeps' = sleeps
       ELSE UNCHANGED <<failed_seen, failed_gets, failed_sleeps>>
    /\ all_non_terminal' =
         (all_non_terminal /\ ~r.raised
          /\ (Accepted(r) => r.task_status \in {"submitted", "processing"}))

ObsInit ==
    /\ gets = 0
    /\ sleeps = 0
    /\ last_resp = NoResponse
    /\ succeed_seen = FALSE
    /\ succeed_gets = 0
    /\ succeed_videos = <<>>
    /\ failed_seen = FALSE
    /\ failed_gets = 0
    /\ failed_sleeps = 0
    /\ all_non_terminal = TRUE

wait_for_video_completion ==
    \/ \E r \in Responses : poll_attempt(r) /\ Observe(r)
    \/ (poll_exhausted /\ CountCalls
        /\ UNCHANGED <<last_resp, succeed_seen, succeed_gets, succeed_videos,
                       failed_seen, failed_gets, failed_sleeps,
                       all_non_terminal>>)

(***************************************************************************)
(* upload_image_to_temporary_hosting (lines 150-175)                       *)
(*                                                                         *)
(* A URL is the sequence of its parts.  No part is a prefix of another, so *)
(* two sequences are the same string only if they are the same sequence,   *)
(* and "tmpfiles.org/" occurs in the string exactly where it is a part.    *)
(***************************************************************************)
\* most parts of the URL the upload endpoint returns
MaxParts == 4

\* the literal of line 168 and the text that replaces it
Literal == "tmpfiles.org/"

Replacement == <<"tmpfiles.org/", "dl/">>

UrlParts == {"https://", Literal, "1/image.png"}

UploadUrls == UNION {[1..n -> UrlParts] : n \in 0..MaxParts}

\* the replies to the POST of line 162: the request (or open) raises, a
\* status code other than 200, a body whose status is not "success", a body
\* without data.url, or a body with a URL
UploadReplies ==
    {[kind |-> k, url |-> <<>>] :
        k \in {"raise", "not_200", "not_success", "no_url"}}
    \cup {[kind |-> "success", url |-> u] : u \in UploadUrls}

\* str.replace(old, new): every occurrence of old is replaced, left to right
RECURSIVE str_replace(_, _, _)
str_replace(s, old, new) ==
    IF s = <<>> THEN <<>>
    ELSE (IF Head(s) = old THEN new ELSE <<Head(s)>>)
         \o str_replace(Tail(s), old, new)

\* the value the call returns: None, or a URL
ReturnNone == [none |-> TRUE, url |-> <<>>]

ReturnUrl(u) == [none |-> FALSE, url |-> u]

\* state of the upload part when no upload is running
UploadIdle ==
    /\ upload_pc = "idle"
    /\ upload_reply = [kind |-> "raise", url |-> <<>>]
    /\ upload_ret = ReturnNone

\* line 150: the call starts; the endpoint will answer with upload_reply
UploadInit ==
    /\ upload_pc = "post"
    /\ upload_reply \in UploadReplies
    /\ upload_ret = ReturnNone

\* lines 155-175: the POST is answered and the call returns
upload_image_to_temporary_hosting ==
    /\ upload_pc = "post"
    /\ upload_pc' = "done"
    /\ upload_ret' =
         IF upload_reply.kind = "success"
         THEN \* lines 164-169
              ReturnUrl(str_replace(upload_reply.url, Literal, Replacement))
         ELSE \* lines 171-175
              ReturnNone
    /\ UNCHANGED upload_reply

(***************************************************************************)
(* find_all_input_images                                                   *)
(***************************************************************************)
\* most entries of base-image in one run
MaxFiles == 2

\* the entries base-image can hold: [stem, suffix] is the file stem + suffix
FilePool == {[stem |-> "a", suffix |-> ".png"],
             [stem |-> "Crying", suffix |-> ".png"],
             [stem |-> "Crying", suffix |-> ".JPG"],
             [stem |-> "notes", suffix |-> ".txt"]}

\* str.lower() on the strings of FilePool
Lower(str) ==
    CASE str = ".JPG" -> ".jpg"
      [] str = "Crying" -> "crying"
      [] OTHER -> str

\* line 190
image_extensions == {".png", ".jpg", ".jpeg", ".webp", ".bmp"}

\* line 196: "crying" in file.name.lower(); no suffix of FilePool holds it
is_crying(file) == Lower(file.stem) \in {"crying"}

\* the duplicate-free listings of at most MaxFiles entries
Listings ==
    {l \in UNION {[1..n -> FilePool] : n \in 0..MaxFiles} :
        \A i, j \in DOMAIN l : i # j => l[i] # l[j]}

\* a discovery that takes every entry for an image
RECURSIVE find_images_any_suffix(_)
find_images_any_suffix(listing) ==
    IF listing = <<>> THEN <<>>
    ELSE <<[path |-> Head(listing), is_crying |-> is_crying(Head(listing)),
            basename |-> Head(listing).stem]>>
         \o find_images_any_suffix(Tail(listing))

\* lines 192-198: the tuples (path, is_crying, basename) of the image files
RECURSIVE find_images(_)
find_images(listing) ==
    IF listing = <<>> THEN <<>>
    ELSE LET file == Head(listing)
             rest == find_images(Tail(listing))
         IN IF Lower(file.suffix) \in image_extensions
            THEN <<[path |-> file, is_crying |-> is_crying(file),
                    basename |-> file.stem]>> \o rest
            ELSE rest

(***************************************************************************)
(* generate_all_videos, process_single_image, send_to_kling,               *)
(* download_kling_video                                                    *)
(***************************************************************************)
\* line 38: the keys of PROMPTS, in order
PROMPTS == <<"surprised", "sad", "confused", "romantic", "crying">>

Emotions == {PROMPTS[k] : k \in DOMAIN PROMPTS}

Stems == {f.stem : f \in FilePool}

\* line 372: os.path.join(OUTPUT_VIDEOS_DIR, f"{image_basename}-{emotion}.mp4")
output_path(basename, emotion) == <<basename, emotion>>

OutputPaths == {output_path(b, e) : b \in Stems, e \in Emotions}

RECURSIVE SelectSeq2(_, _)
SelectSeq2(seq, keep) ==
    IF seq = <<>> THEN <<>>
    ELSE (IF Head(seq) \in keep THEN <<Head(seq)>> ELSE <<>>)
         \o SelectSeq2(Tail(seq), keep)

\* every prompt, whatever the category of the image
prompts_for_every(crying) == PROMPTS

\* lines 344-348
prompts_for(crying) ==
    IF crying THEN <<"crying">>
    ELSE SelectSeq2(PROMPTS, Emotions \ {"crying"})

\* the count of a standard image, for every image
videos_per_image_always4(crying) == 4

\* lines 411 and 434: videos_per_image = 1 if is_crying else 4
videos_per_image(crying) == IF crying THEN 1 ELSE 4

\* a step count that leaves the download step of each video out
RECURSIVE total_steps_without_download(_)
total_steps_without_download(images) ==
    IF images = <<>> THEN 0
    ELSE 1 + videos_per_image(Head(images).is_crying)
         + total_steps_without_download(Tail(images))

\* lines 409-412
RECURSIVE total_steps(_)
total_steps(images) ==
    IF images = <<>> THEN 0
    ELSE 1 + videos_per_image(Head(images).is_crying) * 2
         + total_steps(Tail(images))

\* a test every value passes
Truthy_any(v) == TRUE

\* "if not image_url" (line 353), "if video_url" (line 370)
Truthy(v) == v # None

\* what upload_image_to_temporary_hosting can return (lines 164-175)
UploadResults == {None, "https://tmpfiles.org/dl/1/image"}

\* state of the run part when no run is going on
RunIdle ==
    /\ pc = "idle"
    /\ dir_exists = FALSE
    /\ dir_listing = <<>>
    /\ all_images = <<>>
    /\ total_video_steps = 0
    /\ progress = 0
    /\ total_successful = 0
    /\ total_failed = 0
    /\ all_successful_video_paths = <<>>
    /\ img = 0
    /\ prompts_to_use = <<>>
    /\ image_url = None
    /\ emo = 0
    /\ successful = 0
    /\ failed = 0
    /\ successful_video_paths = <<>>
    /\ out_files = [p \in OutputPaths |-> "absent"]
    /\ token_uses = 0

HistInit ==
    /\ upload_failed = {}
    /\ submitted = {}
    /\ succeeded = {}

\* line 388: the run starts; base-image exists or not, and holds some entries
RunInit ==
    /\ pc = "start"
    /\ dir_exists \in BOOLEAN
    /\ dir_listing \in (IF dir_exists THEN Listings ELSE {<<>>})
    /\ all_images = <<>>
    /\ total_video_steps = 0
    /\ progress = 0
    /\ total_successful = 0
    /\ total_failed = 0
    /\ all_successful_video_paths = <<>>
    /\ img = 0
    /\ prompts_to_use = <<>>
    /\ image_url = None
    /\ emo = 0
    /\ successful = 0
    /\ failed = 0
    /\ successful_video_paths = <<>>
    /\ out_files = [p \in OutputPaths |-> "absent"]
    /\ token_uses = 0

\* lines 186-187, 200-201 and 457-458: discovery raises, the run ends
discovery_fails ==
    /\ pc = "start"
    /\ ~dir_exists \/ find_images(dir_listing) = <<>>
    /\ pc' = "fatal"
    /\ UNCHANGED <<dir_exists, dir_listing, all_images, total_video_steps,
                   progress, total_successful, total_failed,
                   all_successful_video_paths, img, prompts_to_use, image_url,
                   emo, successful, failed, successful_video_paths, out_files>>
    /\ UNCHANGED histVars

\* lines 395-419: the images are found, the steps counted, the totals zeroed
discovery ==
    /\ pc = "start"
    /\ dir_exists
    /\ find_images(dir_listing) # <<>>
    /\ all_images' = find_images(dir_listing)
    /\ total_video_steps' = total_steps(all_images')
    /\ progress' = 0
    /\ total_successful' = 0
    /\ total_failed' = 0
    /\ all_successful_video_paths' = <<>>
    /\ img' = 1
    /\ pc' = "image"
    /\ UNCHANGED <<dir_exists, dir_listing, prompts_to_use, image_url, emo,
                   successful, failed, successful_video_paths, out_files>>
    /\ UNCHANGED histVars

\* lines 422-424 and 343-352: the next image; its prompts are selected and it
\* is uploaded
upload_image ==
    /\ pc = "image"
    /\ img <= Len(all_images)
    /\ prompts_to_use' = prompts_for(all_images[img].is_crying)
    /\ image_url' \in UploadResults
    /\ pc' = "uploaded"
    /\ UNCHANGED <<dir_exists, dir_listing, all_images, total_video_steps,
                   progress, total_successful, total_failed,
                   all_successful_video_paths, img, emo, successful, failed,
                   successful_video_paths, out_files>>
    /\ UNCHANGED histVars

\* lines 353-354 and 432-438: no URL, process_single_image raises; the except
\* clause of generate_all_videos skips the image's steps and counts its videos
\* as failed
upload_failure ==
    /\ pc = "uploaded"
    /\ ~Truthy(image_url)
    /\ LET n == videos_per_image(all_images[img].is_crying)
       IN /\ progress' = progress + (1 + n * 2)
          /\ total_failed' = total_failed + n
    /\ img' = img + 1
    /\ pc' = "image"
    /\ upload_failed' = upload_failed \cup {img}
    /\ UNCHANGED <<dir_exists, dir_listing, all_images, total_video_steps,
                   total_successful, all_successful_video_paths,
                   prompts_to_use, image_url, emo, successful, failed,
                   successful_video_paths, out_files>>
    /\ UNCHANGED <<submitted, succeeded>>

\* lines 355-359: the upload step is counted, the image's counts start at 0
upload_success ==
    /\ pc = "uploaded"
    /\ Truthy(image_url)
    /\ progress' = progress + 1
    /\ successful' = 0
    /\ failed' = 0
    /\ successful_video_paths' = <<>>
    /\ emo' = 1
    /\ pc' = "variant"
    /\ UNCHANGED <<dir_exists, dir_listing, all_images, total_video_steps,
                   total_successful, total_failed, all_successful_video_paths,
                   img, prompts_to_use, image_url, out_files>>
    /\ UNCHANGED histVars

\* the task of the current iteration of line 362
Task == <<img, prompts_to_use[emo]>>

\* lines 362-367, 207-258: send_to_kling returns None without polling (an
\* exception, a non-200 reply, code /= 0, no task_id); lines 368, 378-380:
\* the step is counted, the video is counted failed, the download step skipped
send_to_kling_fails ==
    /\ pc = "variant"
    /\ emo <= Len(prompts_to_use)
    /\ progress' = progress + 1 + 1
    /\ failed' = failed + 1
    /\ emo' = emo + 1
    /\ submitted' = submitted \cup {Task}
    /\ UNCHANGED <<pc, dir_exists, dir_listing, all_images, total_video_steps,
                   total_successful, total_failed, all_successful_video_paths,
                   img, prompts_to_use, image_url, successful,
                   successful_video_paths, out_files>>
    /\ UNCHANGED <<upload_failed, succeeded>>
    /\ UNCHANGED pollVars

\* one more request carries the token
Used(n) == IF n < 2 THEN n + 1 ELSE n

\* lines 211-250: a token is issued (line 211) and the POST of line 239
\* carries it; the POST returns a task_id; wait_for_video_completion starts
\* with that token as its api_token
send_to_kling_submits ==
    /\ pc = "variant"
    /\ emo <= Len(prompts_to_use)
    /\ pc' = "polling"
    /\ token_uses' = Used(0)
    /\ submitted' = submitted \cup {Task}
    /\ poll_pc' = "loop"
    /\ attempt' = 0
    /\ poll_ret' = "pending"
    /\ poll_calls' = {}
    /\ UNCHANGED <<dir_exists, dir_listing, all_images, total_video_steps,
                   progress, total_successful, total_failed,
                   all_successful_video_paths, img, prompts_to_use, image_url,
                   emo, successful, failed, successful_video_paths, out_files>>
    /\ UNCHANGED <<upload_failed, succeeded>>

\* lines 250-251 and 367-368, 378-380: the poll returned None; the step is
\* counted, the video is counted failed, the download step skipped
poll_returned_none ==
    /\ pc = "polling"
    /\ poll_pc = "done"
    /\ ~Truthy(poll_ret)
    /\ progress' = progress + 1 + 1
    /\ failed' = failed + 1
    /\ emo' = emo + 1
    /\ pc' = "variant"
    /\ token_uses' = 0
    /\ poll_pc' = "idle"
    /\ attempt' = 0
    /\ poll_ret' = "pending"
    /\ poll_calls' = {}
    /\ UNCHANGED <<dir_exists, dir_listing, all_images, total_video_steps,
                   total_successful, total_failed, all_successful_video_paths,
                   img, prompts_to_use, image_url, successful,
                   successful_video_paths, out_files>>
    /\ UNCHANGED histVars

\* lines 250-251 and 367-372: the poll returned a URL; the step is counted
poll_returned_url ==
    /\ pc = "polling"
    /\ poll_pc = "done"
    /\ Truthy(poll_ret)
    /\ progress' = progress + 1
    /\ pc' = "download"
    /\ token_uses' = 0
    /\ poll_pc' = "idle"
    /\ attempt' = 0
    /\ poll_ret' = "pending"
    /\ poll_calls' = {}
    /\ UNCHANGED <<dir_exists, dir_listing, all_images, total_video_steps,
                   total_successful, total_failed, all_successful_video_paths,
                   img, prompts_to_use, image_url, emo, successful, failed,
                   successful_video_paths, out_files>>
    /\ UNCHANGED histVars

\* the path of the current task (line 372)
CurrentPath == output_path(all_images[img].basename, prompts_to_use[emo])

\* lines 315-328 and 373-375: a 200 reply, the whole body is written; the
\* download step is counted, the video is counted successful
download_succeeds ==
    /\ pc = "download"
    /\ out_files' = [out_files EXCEPT ![CurrentPath] = "complete"]
    /\ progress' = progress + 1
    /\ successful' = successful + 1
    /\ successful_video_paths' = Append(successful_video_paths, CurrentPath)
    /\ emo' = emo + 1
    /\ pc' = "variant"
    /\ succeeded' = succeeded \cup {Task}
    /\ UNCHANGED <<dir_exists, dir_listing, all_images, total_video_steps,
                   total_successful, total_failed, all_successful_video_paths,
                   img, prompts_to_use, image_url, failed>>
    /\ UNCHANGED <<upload_failed, submitted>>
    /\ UNCHANGED pollVars

\* a failed download that is not counted
download_fails_uncounted ==
    /\ pc = "download"
    /\ emo' = emo + 1
    /\ pc' = "variant"
    /\ UNCHANGED <<dir_exists, dir_listing, all_images, total_video_steps,
                   progress, total_successful, total_failed,
                   all_successful_video_paths, img, prompts_to_use, image_url,
                   successful, failed, successful_video_paths, out_files>>
    /\ UNCHANGED histVars
    /\ UNCHANGED pollVars

\* lines 315, 329-334 and 376-377: requests.get raises or the reply is not a
\* 200 (the file is not touched), or a write raises after save_path was opened
\* (the file is left truncated); the video is counted failed
download_fails ==
    /\ pc = "download"
    /\ \E opened \in BOOLEAN :
         out_files' = IF opened
                      THEN [out_files EXCEPT ![CurrentPath] = "partial"]
                      ELSE out_files
    /\ failed' = failed + 1
    /\ emo' = emo + 1
    /\ pc' = "variant"
    /\ UNCHANGED <<dir_exists, dir_listing, all_images, total_video_steps,
                   progress, total_successful, total_failed,
                   all_successful_video_paths, img, prompts_to_use, image_url,
                   successful, successful_video_paths>>
    /\ UNCHANGED histVars
    /\ UNCHANGED pollVars

\* a return of process_single_image whose failed count is dropped
image_done_drops_failed ==
    /\ pc = "variant"
    /\ emo > Len(prompts_to_use)
    /\ total_successful' = total_successful + successful
    /\ all_successful_video_paths' =
         all_successful_video_paths \o successful_video_paths
    /\ img' = img + 1
    /\ pc' = "image"
    /\ UNCHANGED <<dir_exists, dir_listing, all_images, total_video_steps,
                   progress, total_failed, prompts_to_use, image_url, emo,
                   successful, failed, successful_video_paths, out_files>>
    /\ UNCHANGED histVars
    /\ UNCHANGED pollVars

\* lines 386 and 428-430: process_single_image returns; its counts and paths
\* are added to the totals
image_done ==
    /\ pc = "variant"
    /\ emo > Len(prompts_to_use)
    /\ total_successful' = total_successful + successful
    /\ total_failed' = total_failed + failed
    /\ all_successful_video_paths' =
         all_successful_video_paths \o successful_video_paths
    /\ img' = img + 1
    /\ pc' = "image"
    /\ UNCHANGED <<dir_exists, dir_listing, all_images, total_video_steps,
                   progress, prompts_to_use, image_url, emo, successful,
                   failed, successful_video_paths, out_files>>
    /\ UNCHANGED histVars
    /\ UNCHANGED pollVars

\* line 440: the loop of line 422 is over
loop_done ==
    /\ pc = "image"
    /\ img > Len(all_images)
    /\ pc' = "loop_done"
    /\ UNCHANGED <<dir_exists, dir_listing, all_images, total_video_steps,
                   progress, total_successful, total_failed,
                   all_successful_video_paths, img, prompts_to_use, image_url,
                   emo, successful, failed, successful_video_paths, out_files>>
    /\ UNCHANGED histVars
    /\ UNCHANGED pollVars

\* the status poll of the task submitted by send_to_kling (line 250); the
\* GET of line 276 carries api_token, the token of line 211 (line 272)
poll_of_task ==
    /\ pc = "polling"
    /\ \/ \E r \in Responses : poll_attempt(r)
       \/ poll_exhausted
    /\ token_uses' = IF "GET" \in poll_calls' THEN Used(token_uses)
                     ELSE token_uses
    /\ UNCHANGED <<runVars, histVars>>

(***************************************************************************)
(* The crop stage of generate_all_videos (lines 442-455) and               *)
(* crop_all_generated_videos (lines 107-134).  A call of                   *)
(* crop_video_to_9_16 is taken here by its check of the tool (line 59) and *)
(* by the value it returns; what it does to the file is SpecCrop's.        *)
(***************************************************************************)
\* what check_ffmpeg does (lines 46-52): it returns True, returns False
\* (CalledProcessError, FileNotFoundError), or lets any other error of
\* subprocess.run through (a PermissionError for a tool that is not
\* executable)
CheckResults == {"True", "False", "raise"}

\* the variables of the run the crop stage only reads
runData == <<dir_exists, dir_listing, all_images, total_video_steps, progress,
             total_successful, total_failed, all_successful_video_paths, img,
             prompts_to_use, image_url, emo, successful, failed,
             successful_video_paths, out_files>>

\* state of the crop stage before it starts
StageIdle ==
    /\ video = 0
    /\ cropped_successfully = 0
    /\ crop_failed = 0
    /\ cropped_count = 0
    /\ crop_failed_count = 0
    /\ ffmpeg_checks = 0
    /\ ffmpeg_seen = {}
    /\ crop_calls = <<>>
    /\ reported = <<>>

\* a call of check_ffmpeg with result r
Checked(r) ==
    /\ ffmpeg_checks' = ffmpeg_checks + 1
    /\ ffmpeg_seen' = ffmpeg_seen \cup {r}

\* lines 452 and 447-448: what the summary prints
Summary(with_crop) ==
    [successful |-> total_successful, failed |-> total_failed,
     with_crop |-> with_crop,
     cropped |-> IF with_crop THEN cropped_count ELSE 0,
     crop_failed |-> IF with_crop THEN crop_failed_count ELSE 0]

\* lines 443, 450-455: no successful video; "and" does not call check_ffmpeg,
\* neither at line 443 nor at line 453; the summary is printed
gate_no_videos ==
    /\ pc = "loop_done"
    /\ all_successful_video_paths = <<>>
    /\ reported' = <<Summary(FALSE)>>
    /\ pc' = "summary"
    /\ UNCHANGED <<video, cropped_successfully, crop_failed, cropped_count,
                   crop_failed_count, ffmpeg_checks, ffmpeg_seen, crop_calls>>
    /\ UNCHANGED runData

\* line 443: there are videos, check_ffmpeg is called; True -> line 444;
\* False -> the summary of line 452 is printed; an error -> lines 457-458
gate_check(r) ==
    /\ pc = "loop_done"
    /\ all_successful_video_paths # <<>>
    /\ Checked(r)
    /\ pc' = CASE r = "True" -> "crop_all"
               [] r = "False" -> "no_crop"
               [] OTHER -> "fatal"
    /\ reported' = IF r = "False" THEN <<Summary(FALSE)>> ELSE reported
    /\ UNCHANGED <<video, cropped_successfully, crop_failed, cropped_count,
                   crop_failed_count, crop_calls>>
    /\ UNCHANGED runData

\* lines 453-455: after the summary without cropping check_ffmpeg is called
\* again to choose the message
no_crop_check(r) ==
    /\ pc = "no_crop"
    /\ Checked(r)
    /\ pc' = IF r = "raise" THEN "fatal" ELSE "summary"
    /\ UNCHANGED <<video, cropped_successfully, crop_failed, cropped_count,
                   crop_failed_count, crop_calls, reported>>
    /\ UNCHANGED runData

\* lines 111-122: crop_all_generated_videos starts (its list is not empty)
\* and calls check_ffmpeg; False -> return 0, len(successful_videos)
crop_all_check(r) ==
    /\ pc = "crop_all"
    /\ Checked(r)
    /\ CASE r = "True" ->
              /\ cropped_successfully' = 0
              /\ crop_failed' = 0
              /\ video' = 1
              /\ pc' = "crop_loop"
              /\ UNCHANGED <<cropped_count, crop_failed_count>>
         [] r = "False" ->
              /\ cropped_count' = 0
              /\ crop_failed_count' = Len(all_successful_video_paths)
              /\ pc' = "cropped"
              /\ UNCHANGED <<video, cropped_successfully, crop_failed>>
         [] OTHER ->
              /\ pc' = "fatal"
              /\ UNCHANGED <<video, cropped_successfully, crop_failed,
                             cropped_count, crop_failed_count>>
    /\ UNCHANGED <<crop_calls, reported>>
    /\ UNCHANGED runData

\* a crop skipped for want of the tool that turns the video into a failed one
crop_call_check_demotes(r) ==
    /\ pc = "crop_loop"
    /\ video <= Len(all_successful_video_paths)
    /\ Checked(r)
    /\ crop_calls' = Append(crop_calls, all_successful_video_paths[video])
    /\ pc' = CASE r = "True" -> "cropping"
               [] r = "False" -> "crop_loop"
               [] OTHER -> "fatal"
    /\ video' = IF r = "False" THEN video + 1 ELSE video
    /\ crop_failed' = IF r = "False" THEN crop_failed + 1 ELSE crop_failed
    /\ total_successful' =
         IF r = "False" THEN total_successful - 1 ELSE total_successful
    /\ total_failed' = IF r = "False" THEN total_failed + 1 ELSE total_failed
    /\ UNCHANGED <<cropped_successfully, cropped_count, crop_failed_count,
                   reported>>
    /\ UNCHANGED <<dir_exists, dir_listing, all_images, total_video_steps,
                   progress, all_successful_video_paths, img, prompts_to_use,
                   image_url, emo, successful, failed, successful_video_paths,
                   out_files>>

\* lines 128-129 and 59-62: crop_video_to_9_16 is called on the next video
\* and calls check_ffmpeg; False -> it returns False (lines 131-133)
crop_call_check(r) ==
    /\ pc = "crop_loop"
    /\ video <= Len(all_successful_video_paths)
    /\ Checked(r)
    /\ crop_calls' = Append(crop_calls, all_successful_video_paths[video])
    /\ CASE r = "True" ->
              /\ pc' = "cropping"
              /\ UNCHANGED <<video, crop_failed>>
         [] r = "False" ->
              /\ crop_failed' = crop_failed + 1
              /\ video' = video + 1
              /\ pc' = "crop_loop"
         [] OTHER ->
              /\ pc' = "fatal"
              /\ UNCHANGED <<video, crop_failed>>
    /\ UNCHANGED <<cropped_successfully, cropped_count, crop_failed_count,
                   reported>>
    /\ UNCHANGED runData

\* a crop whose failure is not counted
crop_call_returns_uncounted(ok) ==
    /\ pc = "cropping"
    /\ cropped_successfully' = cropped_successfully + (IF ok THEN 1 ELSE 0)
    /\ video' = video + 1
    /\ pc' = "crop_loop"
    /\ UNCHANGED <<crop_failed, cropped_count, crop_failed_count,
                   ffmpeg_checks, ffmpeg_seen, crop_calls, reported>>
    /\ UNCHANGED runData

\* lines 64-105 and 129-133: crop_video_to_9_16 returns True or False and the
\* crop is counted
crop_call_returns(ok) ==
    /\ pc = "cropping"
    /\ cropped_successfully' = cropped_successfully + (IF ok THEN 1 ELSE 0)
    /\ crop_failed' = crop_failed + (IF ok THEN 0 ELSE 1)
    /\ video' = video + 1
    /\ pc' = "crop_loop"
    /\ UNCHANGED <<cropped_count, crop_failed_count, ffmpeg_checks,
                   ffmpeg_seen, crop_calls, reported>>
    /\ UNCHANGED runData

\* lines 135 and 444: the loop of line 128 is over, the counts are returned
crop_all_returns ==
    /\ pc = "crop_loop"
    /\ video > Len(all_successful_video_paths)
    /\ cropped_count' = cropped_successfully
    /\ crop_failed_count' = crop_failed
    /\ pc' = "cropped"
    /\ UNCHANGED <<video, cropped_successfully, crop_failed, ffmpeg_checks,
                   ffmpeg_seen, crop_calls, reported>>
    /\ UNCHANGED runData

\* lines 447-449: the summary with the cropping results
summary_with_crop ==
    /\ pc = "cropped"
    /\ reported' = <<Summary(TRUE)>>
    /\ pc' = "summary"
    /\ UNCHANGED <<video, cropped_successfully, crop_failed, cropped_count,
                   crop_failed_count, ffmpeg_checks, ffmpeg_seen, crop_calls>>
    /\ UNCHANGED runData

\* lines 442-455
crop_stage ==
    \/ gate_no_videos
    \/ \E r \in CheckResults : gate_check(r)
    \/ \E r \in CheckResults : no_crop_check(r)
    \/ \E r \in CheckResults : crop_all_check(r)
    \/ \E r \in CheckResults : crop_call_check(r)
    \/ \E ok \in BOOLEAN : crop_call_returns(ok)
    \/ crop_all_returns
    \/ summary_with_crop

generate_all_videos ==
    \/ (discovery_fails /\ UNCHANGED <<pollVars, sendVars, stageVars>>)
    \/ (discovery /\ UNCHANGED <<pollVars, sendVars, stageVars>>)
    \/ (upload_image /\ UNCHANGED <<pollVars, sendVars, stageVars>>)
    \/ (upload_failure /\ UNCHANGED <<pollVars, sendVars, stageVars>>)
    \/ (upload_success /\ UNCHANGED <<pollVars, sendVars, stageVars>>)
    \/ (send_to_kling_fails /\ UNCHANGED <<sendVars, stageVars>>)
    \/ (send_to_kling_submits /\ UNCHANGED stageVars)
    \/ (poll_of_task /\ UNCHANGED stageVars)
    \/ (poll_returned_none /\ UNCHANGED stageVars)
    \/ (poll_returned_url /\ UNCHANGED stageVars)
    \/ (download_succeeds /\ UNCHANGED <<sendVars, stageVars>>)
    \/ (download_fails /\ UNCHANGED <<sendVars, stageVars>>)
    \/ (image_done /\ UNCHANGED <<sendVars, stageVars>>)
    \/ (loop_done /\ UNCHANGED <<sendVars, stageVars>>)
    \/ (crop_stage /\ UNCHANGED <<pollVars, sendVars, histVars>>)

(***************************************************************************)
(* Specifications                                                          *)
(***************************************************************************)
InitCrop ==
    /\ CropInit /\ PollIdle /\ ObsInit /\ RunIdle /\ StageIdle /\ HistInit
    /\ UploadIdle

NextCrop ==
    crop_video_to_9_16
    /\ UNCHANGED <<pollVars, obsVars, runVars, uploadVars, sendVars, stageVars,
                   histVars>>

SpecCrop == InitCrop /\ [][NextCrop]_vars

InitPoll ==
    /\ CropIdle /\ PollInit /\ ObsInit /\ RunIdle /\ StageIdle /\ HistInit
    /\ UploadIdle

NextPoll ==
    wait_for_video_completion
    /\ UNCHANGED <<cropVars, runVars, uploadVars, sendVars, stageVars, histVars>>

SpecPoll == InitPoll /\ [][NextPoll]_vars

Init ==
    /\ CropIdle /\ PollIdle /\ ObsInit /\ RunInit /\ StageIdle /\ HistInit
    /\ UploadIdle

Next == generate_all_videos /\ UNCHANGED <<cropVars, obsVars, uploadVars>>

Spec == Init /\ [][Next]_vars

InitUpload ==
    /\ CropIdle /\ PollIdle /\ ObsInit /\ RunIdle /\ StageIdle /\ HistInit
    /\ UploadInit

NextUpload ==
    upload_image_to_temporary_hosting
    /\ UNCHANGED <<cropVars, pollVars, obsVars, runVars, sendVars, stageVars,
                   histVars>>

SpecUpload == InitUpload /\ [][NextUpload]_vars

\* the run is one thread: whenever it has a step to take it takes one, given
\* that every external call returns or raises
SpecLive == Spec /\ WF_vars(Next)

(***************************************************************************)
(* crop_video_to_9_16: the claims, under SpecCrop                          *)
(***************************************************************************)
\* the call has returned
CropReturned == crop_pc = "done"

\* C1: at every point of a crop the original file holds its pre-crop content
\* or the tool's complete cropped output, never anything else.
C1_OriginalNeverPartial ==
    input_file \in {File(pre_content), File(tool_output)}

\* C2: once the call has returned after a non-zero exit or a raised error,
\* the original file is as before the crop, the temp file is gone and the
\* call returned False.
C2_FailureLeavesOriginal ==
    (CropReturned /\ (returncode = 1 \/ crop_raised))
        => /\ input_file = File(pre_content)
           /\ temp_file = Absent
           /\ crop_result = "False"

C4_SucceedEndsPolling ==
    succeed_seen
        => /\ poll_pc = "done"
           /\ gets = succeed_gets
           /\ succeed_videos # <<>>
           /\ poll_ret = succeed_videos[1]
           /\ poll_ret \in Urls

\* C5: the first reply with status "failed" ends the polling at once: no GET
\* and no sleep follows it, and the call returns the no-result value.
C5_FailedEndsPolling ==
    failed_seen
        => /\ poll_pc = "done"
           /\ gets = failed_gets
           /\ sleeps = failed_sleeps
           /\ poll_ret = None

\* C5 witness: a "failed" reply that came after earlier GETs and ended the call
C5_Witness ==
    /\ failed_seen
    /\ failed_gets > 2
    /\ poll_pc = "done"

\* C6: never more than max_attempts GETs; when every reply was non-terminal
\* (a pending status, a non-200, a non-zero code) the call has issued exactly
\* max_attempts GETs when it returns, and returns what a "failed" status
\* returns.
C6_BoundedPolling ==
    /\ gets <= max_attempts
    /\ (poll_pc = "done" /\ all_non_terminal)
          => /\ gets = max_attempts
             /\ poll_ret = ReturnOnFailed
             /\ ~Truthy(poll_ret)

\* C6 witness: a call that returned after max_attempts non-terminal replies
C6_Witness ==
    /\ poll_pc = "done"
    /\ all_non_terminal
    /\ gets = max_attempts
    /\ last_resp.status_code = 200

\* a reply with a pending status
PendingReply == Reply(200, 0, "processing", <<>>)

\* the step is an attempt whose GET raised
ErrorStep == gets' = gets + 1 /\ last_resp' = Raise

\* C7: an attempt that raised does not end the call: it uses up one attempt,
\* one sleep follows it, and the loop goes on exactly as after a pending
\* status.
C7_ErrorIsPending ==
    [][ErrorStep
          => /\ poll_pc' = "loop"
             /\ poll_ret' = "pending"
             /\ attempt' = attempt + 1
             /\ sleeps' = sleeps + 1
             /\ poll_attempt(PendingReply)]_vars

\* C7 witness: the loop is running after several attempts, the latest of
\* which raised
C7_Witness ==
    /\ poll_pc = "loop"
    /\ last_resp = Raise
    /\ attempt > 2
    /\ sleeps = attempt

(***************************************************************************)
(* generate_all_videos: the claims, under Spec                             *)
(***************************************************************************)
\* the loop of line 422 has finished
LoopFinished == pc = "loop_done"

\* C8: the progress counter never exceeds the step count computed up front,
\* and equals it when the per-image loop has finished.
C8_ProgressReachesTotal ==
    /\ progress <= total_video_steps
    /\ LoopFinished => progress = total_video_steps

\* the variant count of image i: 1 for a crying image, 4 otherwise
VariantCount(i) == IF all_images[i].is_crying THEN 1 ELSE 4

\* the variants of image i
VariantsOf(i) ==
    IF all_images[i].is_crying THEN {"crying"} ELSE Emotions \ {"crying"}

\* the tasks of image i that were counted successful
SuccessesOf(i) == Cardinality({t \in succeeded : t[1] = i})

\* what images 1..n add to the success count: nothing for an image whose
\* upload failed, its own successes for any other
RECURSIVE ExpectedSuccessful(_)
ExpectedSuccessful(n) ==
    IF n = 0 THEN 0
    ELSE ExpectedSuccessful(n - 1)
         + (IF n \in upload_failed THEN 0 ELSE SuccessesOf(n))

\* what images 1..n add to the failed count: the variant count for an image
\* whose upload failed, its own failures for any other
RECURSIVE ExpectedFailed(_)
ExpectedFailed(n) ==
    IF n = 0 THEN 0
    ELSE ExpectedFailed(n - 1)
         + (IF n \in upload_failed THEN VariantCount(n)
            ELSE VariantCount(n) - SuccessesOf(n))

\* image i was processed to its end
Processed(i) ==
    \/ i \in upload_failed
    \/ \A e \in VariantsOf(i) : <<i, e>> \in submitted

\* C9: an image whose upload failed adds 0 successes and its variant count of
\* failures; no submit, poll or download is issued for it; every other image
\* is still processed and adds what its own tasks did.
C9_UploadFailureIsLocal ==
    /\ \A t \in submitted \cup succeeded : t[1] \notin upload_failed
    /\ (pc \in {"polling", "download"} \/ poll_pc # "idle")
          => img \notin upload_failed
    /\ LoopFinished
          => /\ total_successful = ExpectedSuccessful(Len(all_images))
             /\ total_failed = ExpectedFailed(Len(all_images))
             /\ \A i \in 1..Len(all_images) : Processed(i)

\* C9 witness: the loop has finished, an upload failed, and a later image had
\* a video counted successful
C9_Witness ==
    /\ LoopFinished
    /\ \E i \in upload_failed :
         \E j \in 1..Len(all_images) :
            j > i /\ j \notin upload_failed /\ SuccessesOf(j) > 0

\* a variant fails at submit, at poll or at download
VariantFailureStep ==
    send_to_kling_fails \/ poll_returned_none \/ download_fails

\* every variant of the images already left behind was submitted, unless the
\* image's upload failed
EarlierVariantsSubmitted ==
    \A i \in 1..Len(all_images) : i < img => Processed(i)

\* C10: a variant that fails at submit, poll or download adds exactly one to
\* the failed count and leaves the success count and the list of successful
\* videos as they were; the loop goes on with the next variant of the same
\* image, so that every variant of the image is submitted.
C10_VariantFailureCountsOne ==
    [][/\ VariantFailureStep
             => /\ failed' = failed + 1
                /\ successful' = successful
                /\ successful_video_paths' = successful_video_paths
                /\ total_successful' = total_successful
                /\ all_successful_video_paths' = all_successful_video_paths
                /\ img' = img
                /\ prompts_to_use' = prompts_to_use
                /\ emo' = emo + 1
                /\ pc' = "variant"
       /\ EarlierVariantsSubmitted']_vars

\* C10 witness: the first variant of an image failed and its second variant
\* was then counted successful
C10_Witness ==
    /\ pc = "variant"
    /\ emo = 3
    /\ failed = 1
    /\ successful = 1
    /\ <<img, prompts_to_use[2]>> \in succeeded

(***************************************************************************)
(* The variants of an image: the claims, under Spec                        *)
(***************************************************************************)
\* send_to_kling is called for the current variant
SubmitStep == send_to_kling_fails \/ send_to_kling_submits

\* the emotions submitted so far for image i
SubmittedFor(i) == {t[2] : t \in {s \in submitted : s[1] = i}}

\* the emotions a category is to get
CategoryVariants(crying) ==
    IF crying THEN {"crying"}
    ELSE {"surprised", "sad", "confused", "romantic"}

\* the variant loop of image i is over
VariantsDone(i) ==
    \/ i < img
    \/ i = img /\ pc = "variant" /\ emo > Len(prompts_to_use)

\* C11: for every image whose upload succeeds the submitted variants depend
\* on its category alone: a crying image gets one task, the "crying" variant;
\* a standard image gets one task for each of the 4 other variants and never
\* the "crying" one; no variant is submitted twice for the same image.
C11_VariantsByCategory ==
    /\ [](\A i \in 1..Len(all_images) :
            /\ SubmittedFor(i) \subseteq CategoryVariants(all_images[i].is_crying)
            /\ (VariantsDone(i) /\ i \notin upload_failed)
                 => /\ SubmittedFor(i) = CategoryVariants(all_images[i].is_crying)
                    /\ Cardinality(SubmittedFor(i))
                         = IF all_images[i].is_crying THEN 1 ELSE 4)
    /\ [][SubmitStep => /\ Task \notin submitted
                        /\ submitted' = submitted \cup {Task}]_vars

\* C11 witness: a standard image and a crying image were both uploaded and
\* both went through all of their variants
C11_Witness ==
    /\ LoopFinished
    /\ upload_failed = {}
    /\ \E i, j \in 1..Len(all_images) :
         /\ all_images[i].is_crying /\ SubmittedFor(i) = {"crying"}
         /\ ~all_images[j].is_crying /\ Cardinality(SubmittedFor(j)) = 4

(***************************************************************************)
(* The API token: the claim, under Spec                                    *)
(***************************************************************************)
\* C12: every call to the generation API (the submit POST and each status
\* GET) carries a token issued for that call: no token is carried by more
\* than one request.
C12_TokenPerCall == token_uses <= 1

(***************************************************************************)
(* The crop stage: the claims, under Spec                                  *)
(***************************************************************************)
\* the run is over: the summary is out and line 455 or 449 is passed, or the
\* except clause of lines 457-458 ended it
RunEnded == pc \in {"summary", "fatal"}

\* every check_ffmpeg of the run found the tool
ToolAvailable == ffmpeg_seen = {"True"}

\* C13: if at least one video was generated and the crop tool is available,
\* then at the end of the run crop_video_to_9_16 has been called on every
\* successful video, in the order of the list and one call at a time, and the
\* reported cropped count plus crop-failed count is the number of successful
\* videos.
C13_CropEveryVideo ==
    /\ crop_calls
         = SubSeq(all_successful_video_paths, 1, Len(crop_calls))
    /\ pc = "cropping" => Len(crop_calls) = video
    /\ pc = "crop_loop" => Len(crop_calls) = video - 1
    /\ (RunEnded /\ all_successful_video_paths # <<>> /\ ToolAvailable)
         => /\ pc = "summary"
            /\ crop_calls = all_successful_video_paths
            /\ reported # <<>>
            /\ reported[1].with_crop
            /\ reported[1].cropped + reported[1].crop_failed
                 = Len(all_successful_video_paths)

\* C13 witness: the run ended with the tool available all along, one video
\* cropped and another whose crop failed
C13_Witness ==
    /\ pc = "summary"
    /\ ToolAvailable
    /\ Len(all_successful_video_paths) >= 2
    /\ reported # <<>>
    /\ reported[1].cropped >= 1
    /\ reported[1].crop_failed >= 1

\* the positions of the crop stage
StagePcs == {"loop_done", "no_crop", "crop_all", "crop_loop", "cropping",
             "cropped"}

\* C14: the crop stage leaves the generation totals unchanged: whatever the
\* crops do (success, tool failure, tool unavailable), no step of the stage
\* changes the success count, the failed count or the list of successful
\* videos, and the summary reports the counts the per-image loop ended with.
C14_CropLeavesTotals ==
    [][(pc \in StagePcs)
         => /\ total_successful' = total_successful
            /\ total_failed' = total_failed
            /\ all_successful_video_paths' = all_successful_video_paths
            /\ (reported' # reported
                  => (/\ reported'[1].successful = total_successful
                      /\ reported'[1].failed = total_failed))
      ]_vars

\* C14 witness: the summary is out after a crop that succeeded, and a crop
\* that failed, in a run where the tool was also found missing
C14_Witness ==
    /\ pc = "summary"
    /\ "False" \in ffmpeg_seen
    /\ total_successful >= 2
    /\ reported # <<>>
    /\ reported[1].cropped >= 1
    /\ reported[1].crop_failed >= 1
    /\ reported[1].successful = total_successful

\* C15: within a run the availability of the crop tool is checked exactly
\* once, before the first crop is attempted, and that one result governs
\* every crop call of the run.
C15_ToolCheckedOnce ==
    /\ ffmpeg_checks <= 1
    /\ crop_calls # <<>> => ffmpeg_checks = 1

(***************************************************************************)
(* upload_image_to_temporary_hosting: the claim, under SpecUpload          *)
(***************************************************************************)
\* u with the part at position i followed by "dl/"
SubstitutedAt(u, i) ==
    SubSeq(u, 1, i) \o <<"dl/">> \o SubSeq(u, i + 1, Len(u))

\* C16: for every URL the upload endpoint returns that contains the literal
\* "tmpfiles.org/", the URL returned by the call is that URL with exactly
\* one occurrence of the literal replaced by "tmpfiles.org/dl/" and
\* everything else unchanged.
C16_OneSubstitution ==
    (/\ upload_pc = "done"
     /\ upload_reply.kind = "success"
     /\ \E i \in DOMAIN upload_reply.url : upload_reply.url[i] = Literal)
       => /\ ~upload_ret.none
          /\ \E i \in DOMAIN upload_reply.url :
                /\ upload_reply.url[i] = Literal
                /\ upload_ret.url = SubstitutedAt(upload_reply.url, i)

(***************************************************************************)
(* The whole run: the claims, under Spec                                   *)
(***************************************************************************)
\* the per-image loop of a run that found images is behind
LoopOver == all_images # <<>> /\ pc \in StagePcs \cup {"summary", "fatal"}

\* every task of the run
AllTasks ==
    {t \in (1..Len(all_images)) \X Emotions :
        t[2] \in CategoryVariants(all_images[t[1]].is_crying)}

\* the tasks of the first n images: 1 per crying image, 4 per standard image
RECURSIVE TaskCount(_)
TaskCount(n) ==
    IF n = 0 THEN 0
    ELSE TaskCount(n - 1) + (IF all_images[n].is_crying THEN 1 ELSE 4)

\* C17: if every upload, submit, poll and download succeeds for every
\* discovered image, then at the end of the run the success count is the
\* number of tasks (1 per crying image plus 4 per standard image), the
\* failed count is 0 and the progress counter equals the total step count.
C17_AllSucceed ==
    (LoopOver /\ succeeded = AllTasks)
       => /\ total_successful = TaskCount(Len(all_images))
          /\ total_failed = 0
          /\ progress = total_video_steps
          /\ total_video_steps = Len(all_images) + 2 * TaskCount(Len(all_images))

\* C17 witness: a standard and a crying image, 5 tasks, all successful, and
\* the summary is out
C17_Witness ==
    /\ pc = "summary"
    /\ Len(all_images) = 2
    /\ succeeded = AllTasks
    /\ Cardinality(succeeded) = 5
    /\ total_successful = 5

\* a status GET is issued
GetStep == poll_of_task /\ "GET" \in poll_calls'

\* a download is issued
DownloadStep == download_succeeds \/ download_fails

\* crop_video_to_9_16 is called
CropStep == crop_calls' # crop_calls

\* C18: the run goes Discover, per image Upload, per variant Submit, Poll,
\* Download, then Crop-all: an upload is issued only for a discovered image;
\* a submit only after that image's upload returned a URL and after the
\* previous task has been counted; a status GET only after the submit
\* returned a task identifier; a download only after the poll returned a
\* video URL; and no crop before the last image has finished processing.
C18_RunOrder ==
    [][/\ upload_image
            => all_images = find_images(dir_listing) /\ img \in DOMAIN all_images
       /\ SubmitStep
            => /\ image_url # None
               /\ img \notin upload_failed
               /\ poll_pc = "idle"
               /\ successful + failed = emo - 1
               /\ \A k \in 1..(emo - 1) : <<img, prompts_to_use[k]>> \in submitted
               /\ crop_calls = <<>> /\ ffmpeg_checks = 0
       /\ (pc' = "polling" /\ pc # "polling") => send_to_kling_submits
       /\ GetStep
            => /\ Task \in submitted
               /\ token_uses >= 1
               /\ successful + failed = emo - 1
       /\ (pc' = "download")
            => /\ pc = "polling"
               /\ poll_pc = "done"
               /\ Truthy(poll_ret)
               /\ poll_ret \in Urls
       /\ DownloadStep => Task \in submitted /\ poll_pc' = "idle"
       /\ (CropStep \/ ffmpeg_checks' # ffmpeg_checks)
            => /\ img > Len(all_images)
               /\ pc \in StagePcs
               /\ poll_pc = "idle"
               /\ \A i \in 1..Len(all_images) : Processed(i)
      ]_vars

\* C18 witness: a run went through upload, submit, poll and download of two
\* images and a crop is under way
C18_Witness ==
    /\ pc = "cropping"
    /\ Len(all_images) = 2
    /\ upload_failed = {}
    /\ Len(crop_calls) = 2
    /\ \E t \in submitted : t \notin succeeded

\* the input directory is missing, or no entry of it has an accepted image
\* extension (compared without case)
NothingToDiscover ==
    \/ ~dir_exists
    \/ \A k \in DOMAIN dir_listing :
          Lower(dir_listing[k].suffix)
             \notin {".png", ".jpg", ".jpeg", ".webp", ".bmp"}

\* C19: if discovery fails (the input directory is missing or holds no file
\* with an accepted image extension) the run stops before doing any work: no
\* upload, submit, poll, download or crop is performed and the success and
\* failed counts are never incremented.
C19_DiscoveryFailureStopsRun ==
    NothingToDiscover
       => /\ pc \in {"start", "fatal"}
          /\ all_images = <<>>
          /\ image_url = None
          /\ submitted = {} /\ succeeded = {} /\ upload_failed = {}
          /\ poll_pc = "idle" /\ token_uses = 0
          /\ \A p \in OutputPaths : out_files[p] = "absent"
          /\ ffmpeg_checks = 0 /\ crop_calls = <<>>
          /\ total_successful = 0 /\ total_failed = 0
          /\ successful = 0 /\ failed = 0
          /\ progress = 0
          /\ reported = <<>>

\* C19 witness: the directory exists and holds only a file that is no image;
\* the run has ended
C19_Witness ==
    /\ pc = "fatal"
    /\ dir_exists
    /\ Len(dir_listing) = 1
    /\ NothingToDiscover

\* C20: provided that every external call returns or raises, every run over
\* a set of discovered images eventually prints the final summary, whatever
\* fails at upload, submit, poll, download or crop.
C20_RunReachesSummary == (all_images # <<>>) ~> (reported # <<>>)

(***************************************************************************)
(* The counts and the list of successful videos: the claims, under Spec    *)
(***************************************************************************)
\* C21: when the summary is reached, success count + failed count is the
\* number of tasks of the run (the sum of the variant counts of the
\* discovered images), whatever the uploads, submits, polls and downloads
\* did; every task is counted once, as a success or as a failure.
C21_CountsCoverTasks ==
    /\ LoopOver
         => /\ total_successful + total_failed = TaskCount(Len(all_images))
            /\ succeeded \subseteq AllTasks
            /\ total_successful = Cardinality(succeeded)
            /\ total_failed = Cardinality(AllTasks \ succeeded)
    /\ reported # <<>>
         => reported[1].successful + reported[1].failed
              = TaskCount(Len(all_images))

\* C21 witness: the summary is out for a run of two images where the upload
\* of one failed and the other had successes and failures
C21_Witness ==
    /\ pc = "summary"
    /\ Len(all_images) = 2
    /\ upload_failed = {2}
    /\ ~all_images[1].is_crying
    /\ reported[1].successful = 2
    /\ reported[1].failed = 3

\* no element of the sequence occurs twice
NoDuplicate(seq) ==
    \A i, j \in DOMAIN seq : i # j => seq[i] # seq[j]

\* C22: for any set of discovered images, also images whose names differ
\* only by extension, distinct (image, variant) tasks write distinct output
\* paths: the list of successful video paths handed to the crop stage has no
\* duplicate and no file is cropped more than once in a run.
C22_DistinctOutputPaths ==
    /\ \A s, t \in succeeded :
          s # t => output_path(all_images[s[1]].basename, s[2])
                     # output_path(all_images[t[1]].basename, t[2])
    /\ NoDuplicate(all_successful_video_paths)
    /\ NoDuplicate(crop_calls)

\* C23: at every point of a run the success count equals the length of the
\* list of successful videos, a path is in the list only if its task's
\* download completed (a 200 reply and the whole body written), and a file
\* left by a failed or interrupted download is never handed to the crop
\* stage.
C23_OnlyCompleteVideos ==
    /\ total_successful = Len(all_successful_video_paths)
    /\ successful = Len(successful_video_paths)
    /\ \A k \in DOMAIN all_successful_video_paths :
          \E t \in succeeded :
             all_successful_video_paths[k]
                = output_path(all_images[t[1]].basename, t[2])
    /\ pc \in StagePcs \cup {"summary"}
         => \A k \in DOMAIN all_successful_video_paths :
               out_files[all_successful_video_paths[k]] = "complete"
    /\ \A k \in DOMAIN crop_calls : out_files[crop_calls[k]] = "complete"

====
